---- MODULE Spec2Model ----
(***************************************************************************)
(* Model of server.py: the store client call_sparql_execute, the result    *)
(* normalizer convert_to_dataframe, the query synthesizer                  *)
(* generate_sparql_query and the request handler index.                    *)
(*                                                                         *)
(* Text is a sequence of tokens.  A token is one character of a payload    *)
(* ("N", "A", "," or the line feed) or a fixed piece of text the program   *)
(* writes as a whole (a message prefix, a rendered exception).             *)
(***************************************************************************)
EXTENDS Integers, Sequences, FiniteSets, TLC

\* Longest payload given to convert_to_dataframe on its own (SpecNorm).
MaxPayloadLen == 5
\* Longest payload the store returns to a request (Spec).
MaxStoreLen == 3

COMMA == ","
LF == "\n"
\* The characters of a payload: two letters, the delimiter, the line feed.
Chars == {"N", "A", COMMA, LF}

\* All texts over S of length at most n.
TextsUpTo(S, n) == UNION {[1..k -> S] : k \in 0..n}

\* Python's None where a text is expected, and str() of a value in an f-string.
None == <<"<None>">>
Str(v) == IF v = None THEN <<"None">> ELSE v

\* A Python value that is None or a list.
PyNone == [py |-> "None"]
PyList(v) == [py |-> "list", v |-> v]

(***************************************************************************)
(* Exceptions: a class and the text str(e) gives.                          *)
(***************************************************************************)
Exc(type, text) == [type |-> type, text |-> text]
NoExc == Exc("none", <<>>)

\* The direct base class of each exception class the program can meet.
BaseOf(type) ==
    CASE type = "dbapi.ProgrammingError" -> "dbapi.Error"
      [] type = "dbapi.Error" -> "Exception"
      [] type = "Exception" -> "BaseException"
      [] type = "BaseException" -> "object"
      [] OTHER -> "Exception"

RECURSIVE IsInstance(_, _)
IsInstance(type, class) ==
    IF type = class THEN TRUE
    ELSE IF type = "object" THEN FALSE
    ELSE IsInstance(BaseOf(type), class)

(***************************************************************************)
(* pandas.read_csv with its defaults (comma delimiter, first line is the   *)
(* header, blank lines skipped, default NA markers), then fillna('').      *)
(***************************************************************************)
RECURSIVE SplitOn(_, _)
SplitOn(s, d) ==
    IF \A i \in 1..Len(s) : s[i] # d THEN <<s>>
    ELSE LET i == CHOOSE k \in 1..Len(s) :
                      s[k] = d /\ \A j \in 1..(k - 1) : s[j] # d
         IN  <<SubSeq(s, 1, i - 1)>> \o SplitOn(SubSeq(s, i + 1, Len(s)), d)

NonBlank(line) == line # <<>>

\* The lines the tokenizer keeps: skip_blank_lines drops every empty line.
CsvLines(text) == SelectSeq(SplitOn(text, LF), NonBlank)

\* The not-a-number marker of a missing cell, and the cell texts read as one.
NaN == <<"<NaN>">>
NAValues == {<<>>, <<"N", "A">>}

\* Header names: an empty name becomes "Unnamed: i", a repeated name "x.k".
ColumnNames(header) ==
    LET named == [i \in 1..Len(header) |->
                    IF header[i] = <<>> THEN <<"Unnamed: ", ToString(i - 1)>>
                    ELSE header[i]]
        seen(i) == Cardinality({j \in 1..(i - 1) : named[j] = named[i]})
    IN  [i \in 1..Len(header) |->
            IF seen(i) = 0 THEN named[i]
            ELSE named[i] \o <<".", ToString(seen(i))>>]

Max(a, b) == IF a >= b THEN a ELSE b

\* A line with fewer fields than the table is wide gets empty fields appended.
PadTo(fields, w) == fields \o [i \in 1..(w - Len(fields)) |-> <<>>]

ParseCell(cell) == IF cell \in NAValues THEN NaN ELSE cell

read_csv(text) ==
    LET lines == CsvLines(text)
    IN  IF Len(lines) = 0
        THEN [ok |-> FALSE,
              exc |-> Exc("EmptyDataError", <<"No columns to parse from file">>)]
        ELSE
          LET header == SplitOn(lines[1], COMMA)
              h == Len(header)
              data == [i \in 1..(Len(lines) - 1) |-> SplitOn(lines[i + 1], COMMA)]
              \* the first data line sets the width; fields beyond the header's
              \* count are leading index columns, not cells
              w == IF Len(data) = 0 THEN h ELSE Max(h, Len(data[1]))
              lead == w - h
          IN  IF \E i \in 2..Len(data) : Len(data[i]) > w
              THEN [ok |-> FALSE,
                    exc |-> Exc("ParserError", <<"Error tokenizing data">>)]
              ELSE [ok |-> TRUE,
                    columns |-> ColumnNames(header),
                    rows |-> [i \in 1..Len(data) |->
                                [c \in 1..h |->
                                    ParseCell(PadTo(data[i], w)[lead + c])]]]

fillna(df) ==
    IF df.ok
    THEN [df EXCEPT !.rows =
            [i \in 1..Len(df.rows) |->
                [c \in 1..Len(df.rows[i]) |->
                    IF df.rows[i][c] = NaN THEN <<>> ELSE df.rows[i][c]]]]
    ELSE df

convert_to_dataframe(result) == fillna(read_csv(result))

(***************************************************************************)
(* The language model's completion and json.loads of its content.          *)
(***************************************************************************)
RefusalSentence ==
    <<"Please enter your question in a prominent language such as English, Spanish, German, or French.">>

\* Question texts of the form field: one in a supported language, one not.
SupportedQuestion == <<"A">>
UnsupportedQuestion == <<"N">>
Questions == {SupportedQuestion, UnsupportedQuestion}
Unsupported(q) == q = UnsupportedQuestion

\* A completion's content: a JSON object, or text that is not JSON.
JsonObject(obj) == [json |-> TRUE, obj |-> obj]
NotJson(text) == [json |-> FALSE, text |-> text]

SynthesizedQuery == <<"SELECT">>

\* What the model answers to a question in a supported language: the
\* requested object with a query, with an empty or null query, an object
\* without the query field, or cut-off output.
QueryCompletions ==
    {JsonObject([sparql_query |-> q, literals |-> <<>>,
                 triples_with_literals |-> <<>>]) :
        q \in {SynthesizedQuery, <<>>, None}}
    \cup {JsonObject([literals |-> <<>>]), NotJson(<<"{">>)}

\* What it answers to a question in an unsupported language: the refusal
\* sentence alone, or inside an object (the JSON output mode), in a field of
\* its own or in the query field.
RefusalCompletions ==
    {NotJson(RefusalSentence),
     JsonObject([message |-> RefusalSentence]),
     JsonObject([sparql_query |-> RefusalSentence, literals |-> <<>>,
                 triples_with_literals |-> <<>>])}

Completions(user_input) ==
    IF Unsupported(user_input) THEN RefusalCompletions ELSE QueryCompletions

\* Faults of the completion call itself (network, service, a null question).
CompletionFaults == {Exc("OpenAIError", <<"A">>)}

json_loads(content) ==
    IF content.json
    THEN [ok |-> TRUE, val |-> content.obj]
    ELSE [ok |-> FALSE,
          exc |-> Exc("JSONDecodeError",
                      <<"Expecting value: line 1 column 1 (char 0)">>)]

(***************************************************************************)
(* The remote store as the client sees it.                                 *)
(***************************************************************************)
\* Faults of dbapi.connect, conn.cursor and cursor.callproc: the library's
\* own error classes and a fault of another class.  str() of a dbapi error
\* is one line, "(code, 'text')", hence the comma.
StoreFaults ==
    {Exc("dbapi.Error", <<"A">>),
     Exc("dbapi.ProgrammingError", <<"A", COMMA, "N">>),
     Exc("TypeError", <<"A">>)}

OntologyQuery == <<"CONSTRUCT">>
OntologyPayloads == {<<"A">>}
StorePayloads == TextsUpTo(Chars, MaxStoreLen)

ErrorMessage(e) == <<"Error executing SPARQL query: ">> \o e.text

StoreCatches(type) == IsInstance(type, "dbapi.Error")

(***************************************************************************)
(* State.                                                                  *)
(***************************************************************************)
VARIABLES
    pc,               \* the position of the one thread of control
    ontology_result,  \* module global, set once by the load at line 114
    caller,           \* who called call_sparql_execute: "module" or "index"
    query,            \* call_sparql_execute: its argument
    conn,             \* call_sparql_execute: "unset", "open" or "closed"
    cursor,           \* call_sparql_execute: "None", "open" or "closed"
    response,         \* call_sparql_execute: result[2]
    store_exc,        \* call_sparql_execute: the exception raised in its try
    store_ret,        \* how the last call of call_sparql_execute ended
    method,           \* index: request.method
    user_query,       \* index: locals
    content,          \* generate_sparql_query: the completion's content
    sparql_data,
    sparql_query,
    sparql_result,
    results_df,
    results,
    columns,
    message,
    index_exc,        \* index: the exception raised in its try
    outcome,          \* index: "DONE" try block completed, "FAILED" handler ran
    catches,          \* index: how often the handler of line 143 ran
    trace             \* index: the stage calls and how each ended

storeVars == <<caller, query, conn, cursor, response, store_exc, store_ret>>
indexVars == <<method, user_query, content, sparql_data, sparql_query,
               sparql_result,
               results_df, results, columns, message, index_exc, outcome,
               catches, trace>>
vars == <<pc, ontology_result, storeVars, indexVars>>

NoContent == NotJson(<<>>)
NoDf == [ok |-> FALSE, exc |-> NoExc]
NoReturn == [kind |-> "none", val |-> <<>>]
Unset == [py |-> "unset"]

\* The locals of call_sparql_execute and of index before either has run.
StoreLocalsInit ==
    /\ caller = "none"
    /\ query = None
    /\ conn = "unset"
    /\ cursor = "None"
    /\ response = None
    /\ store_exc = NoExc
    /\ store_ret = NoReturn

IndexLocalsInit ==
    /\ method = "none"
    /\ user_query = None
    /\ content = NoContent
    /\ sparql_data = Unset
    /\ sparql_query = None
    /\ sparql_result = None
    /\ results_df = NoDf
    /\ results = PyNone
    /\ columns = PyNone
    /\ message = None
    /\ index_exc = NoExc
    /\ outcome = "none"
    /\ catches = 0
    /\ trace = <<>>

\* The locals of a function that has returned are gone.
StoreLocalsDropped ==
    /\ caller' = "none"
    /\ query' = None
    /\ conn' = "unset"
    /\ cursor' = "None"
    /\ response' = None
    /\ store_exc' = NoExc
    /\ store_ret' = NoReturn

IndexLocalsDropped ==
    /\ method' = "none"
    /\ user_query' = None
    /\ content' = NoContent
    /\ sparql_data' = Unset
    /\ sparql_query' = None
    /\ sparql_result' = None
    /\ results_df' = NoDf
    /\ results' = PyNone
    /\ columns' = PyNone
    /\ message' = None
    /\ index_exc' = NoExc
    /\ outcome' = "none"
    /\ catches' = 0
    /\ trace' = <<>>

Init ==
    /\ pc = "load"
    /\ ontology_result = None
    /\ StoreLocalsInit
    /\ IndexLocalsInit

(***************************************************************************)
(* call_sparql_execute, step by step.                                      *)
(***************************************************************************)
\* Entry: the argument is bound and cursor = None (lines 35-37).
EnterStore(who, q) ==
    /\ caller' = who
    /\ query' = q
    /\ conn' = "unset"
    /\ cursor' = "None"
    /\ response' = None
    /\ store_exc' = NoExc
    /\ store_ret' = NoReturn
    /\ pc' = "connect"

\* The call returns v to its caller.
ReturnFromStore(v) ==
    /\ store_ret' = [kind |-> "value", val |-> v]
    /\ IF caller = "module"
       THEN /\ ontology_result' = v
            /\ pc' = "idle"
            /\ UNCHANGED indexVars
       ELSE /\ sparql_result' = v
            /\ trace' = Append(trace, "execute:return")
            /\ pc' = "normalize"
            /\ UNCHANGED <<ontology_result, method, user_query, content,
                   sparql_data, sparql_query, results_df, results, columns,
                           message, index_exc, outcome, catches>>

\* The call ends with e raised to its caller: the module's top level has no
\* handler, index has the one of line 143.
RaiseFromStore(e) ==
    /\ store_ret' = [kind |-> "raised", val |-> e.text]
    /\ IF caller = "module"
       THEN /\ pc' = "crashed"
            /\ UNCHANGED <<ontology_result, indexVars>>
       ELSE /\ index_exc' = e
            /\ trace' = Append(trace, "execute:raise")
            /\ pc' = "except"
            /\ UNCHANGED <<ontology_result, method, user_query, content,
                   sparql_data, sparql_query, sparql_result, results_df, results,
                           columns, message, outcome, catches>>

StoreRaises(e) ==
    /\ store_exc' = e
    /\ pc' = "store_except"

Connect ==
    /\ pc = "connect"
    /\ \/ /\ conn' = "open"
          /\ pc' = "cursor"
          /\ UNCHANGED store_exc
       \/ /\ \E e \in StoreFaults : StoreRaises(e)
          /\ UNCHANGED conn
    /\ UNCHANGED <<ontology_result, caller, query, cursor, response, store_ret,
                   indexVars>>

CreateCursor ==
    /\ pc = "cursor"
    /\ \/ /\ cursor' = "open"
          /\ pc' = "callproc"
          /\ UNCHANGED store_exc
       \/ /\ \E e \in StoreFaults : StoreRaises(e)
          /\ UNCHANGED cursor
    /\ UNCHANGED <<ontology_result, caller, query, conn, response, store_ret,
                   indexVars>>

Callproc ==
    /\ pc = "callproc"
    /\ \/ /\ \E p \in (IF caller = "module" THEN OntologyPayloads
                                             ELSE StorePayloads) :
                response' = p
          /\ pc' = "close"
          /\ UNCHANGED store_exc
       \/ /\ \E e \in StoreFaults : StoreRaises(e)
          /\ UNCHANGED response
    /\ UNCHANGED <<ontology_result, caller, query, conn, cursor, store_ret,
                   indexVars>>

\* Lines 50-52: both handles closed, the payload returned.
CloseAndReturn ==
    /\ pc = "close"
    /\ cursor' = "closed"
    /\ conn' = "closed"
    /\ ReturnFromStore(response)
    /\ UNCHANGED <<caller, query, response, store_exc>>

\* Lines 53-57: the handler of dbapi.Error; any other exception leaves the
\* function.
StoreExcept ==
    /\ pc = "store_except"
    /\ IF StoreCatches(store_exc.type)
       THEN /\ cursor' = (IF cursor # "None" THEN "closed" ELSE cursor)
            /\ ReturnFromStore(ErrorMessage(store_exc))
       ELSE /\ RaiseFromStore(store_exc)
            /\ UNCHANGED cursor
    /\ UNCHANGED <<caller, query, conn, response, store_exc>>

\* Line 114: the module calls the store once, when it is loaded.
LoadOntology ==
    /\ pc = "load"
    /\ EnterStore("module", OntologyQuery)
    /\ UNCHANGED <<ontology_result, indexVars>>

(***************************************************************************)
(* index, the request handler.                                             *)
(***************************************************************************)
Methods == {"GET", "POST"}

\* request.form.get('user_query'): the field's text, or None without the field.
FormValues == Questions \cup {None}

IndexRaises(e, stage) ==
    /\ index_exc' = e
    /\ trace' = trace \o stage
    /\ pc' = "except"

\* A handler that runs the pipeline for every method, GET included.
EntersTryAlways(m) == TRUE

\* Line 124: only a POST reads the form and enters the try block.
EntersTry(m) == m = "POST"

\* Lines 118-125: the locals are set; a POST reads the form.
Request ==
    /\ pc = "idle"
    /\ \E m \in Methods, q \in FormValues :
          /\ method' = m
          /\ IF EntersTry(m)
             THEN /\ user_query' = q
                  /\ pc' = "synthesize"
             ELSE /\ user_query' = None
                  /\ pc' = "render"
    /\ content' = NoContent
    /\ sparql_data' = Unset
    /\ sparql_query' = None
    /\ sparql_result' = None
    /\ results_df' = NoDf
    /\ results' = PyNone
    /\ columns' = PyNone
    /\ message' = None
    /\ index_exc' = NoExc
    /\ outcome' = "none"
    /\ catches' = 0
    /\ trace' = <<>>
    /\ StoreLocalsDropped
    /\ UNCHANGED ontology_result

\* Line 128, generate_sparql_query (lines 64-106): one completion call, then
\* json.loads of its content.  A null question is rejected by the service.
Synthesize ==
    /\ pc = "synthesize"
    /\ \/ /\ \E e \in CompletionFaults :
                IndexRaises(e, <<"synthesize:call", "synthesize:raise">>)
          /\ UNCHANGED <<content, sparql_data>>
       \/ /\ user_query # None
          /\ \E c \in Completions(user_query) :
                LET parsed == json_loads(c)
                IN  /\ content' = c
                    /\ IF parsed.ok
                       THEN /\ sparql_data' = [py |-> "dict", v |-> parsed.val]
                            /\ trace' = trace \o
                                   <<"synthesize:call", "synthesize:return">>
                            /\ pc' = "subscript"
                            /\ UNCHANGED index_exc
                       ELSE /\ IndexRaises(parsed.exc,
                                   <<"synthesize:call", "synthesize:raise">>)
                            /\ UNCHANGED sparql_data
    /\ UNCHANGED <<ontology_result, storeVars, method, user_query, sparql_query,
                   sparql_result, results_df, results, columns, message,
                   outcome, catches>>

\* Line 129: sparql_data['sparql_query'].
ReadQueryField ==
    /\ pc = "subscript"
    /\ IF "sparql_query" \in DOMAIN sparql_data.v
       THEN /\ sparql_query' = sparql_data.v.sparql_query
            /\ trace' = Append(trace, "subscript:return")
            /\ pc' = "execute"
            /\ UNCHANGED index_exc
       ELSE /\ IndexRaises(Exc("KeyError", <<"'sparql_query'">>),
                           <<"subscript:raise">>)
            /\ UNCHANGED sparql_query
    /\ UNCHANGED <<ontology_result, storeVars, method, user_query, content,
                   sparql_data, sparql_result, results_df, results, columns, message,
                   outcome, catches>>

\* Line 132: the call of call_sparql_execute.
Execute ==
    /\ pc = "execute"
    /\ EnterStore("index", sparql_query)
    /\ trace' = Append(trace, "execute:call")
    /\ UNCHANGED <<ontology_result, method, user_query, content,
                   sparql_data, sparql_query, sparql_result, results_df, results, columns,
                   message, index_exc, outcome, catches>>

\* An empty-result notice that leaves the question out.
EmptyResultMessageBare(rows, question, msg) ==
    IF Len(rows) = 0 THEN <<"No records found for query: ">> ELSE msg

\* Lines 140-141: the notice of an empty result.
EmptyResultMessage(rows, question, msg) ==
    IF Len(rows) = 0
    THEN <<"No records found for query: ">> \o Str(question)
    ELSE msg

\* Lines 133-141: normalization, the lists for rendering, the empty check.
Normalize ==
    /\ pc = "normalize"
    /\ LET df == convert_to_dataframe(sparql_result)
       IN  IF df.ok
           THEN /\ results_df' = df
                /\ results' = PyList(df.rows)
                /\ columns' = PyList(df.columns)
                /\ message' = EmptyResultMessage(df.rows, user_query, message)
                /\ outcome' = "DONE"
                /\ trace' = trace \o <<"normalize:call", "normalize:return">>
                /\ pc' = "render"
                /\ UNCHANGED index_exc
           ELSE /\ IndexRaises(df.exc, <<"normalize:call", "normalize:raise">>)
                /\ UNCHANGED <<results_df, results, columns, message, outcome>>
    /\ UNCHANGED <<ontology_result, storeVars, method, user_query, content,
                   sparql_data, sparql_query, sparql_result, catches>>

\* A handler that catches lookup errors only.
IndexCatchesKeyError(type) == IsInstance(type, "KeyError")

\* Line 143: the classes the handler of index catches.
IndexCatches(type) == IsInstance(type, "Exception")

\* A handler that swallows the exception and sets no message.
ExceptMessageUnset(e) == None

\* Line 144: the message the handler sets.
ExceptMessage(e) == <<"Error: ">> \o e.text

\* Lines 143-144; an exception the handler does not catch leaves index.
IndexExcept ==
    /\ pc = "except"
    /\ IF IndexCatches(index_exc.type)
       THEN /\ message' = ExceptMessage(index_exc)
            /\ outcome' = "FAILED"
            /\ catches' = catches + 1
            /\ pc' = "render"
       ELSE /\ pc' = "unhandled"
            /\ UNCHANGED <<message, outcome, catches>>
    /\ UNCHANGED <<ontology_result, storeVars, method, user_query, content,
                   sparql_data, sparql_query, sparql_result, results_df, results, columns,
                   index_exc, trace>>

\* Lines 146-153: the response is rendered from the locals and index returns.
Render ==
    /\ pc = "render"
    /\ pc' = "idle"
    /\ StoreLocalsDropped
    /\ IndexLocalsDropped
    /\ UNCHANGED ontology_result

Next ==
    \/ LoadOntology
    \/ Connect
    \/ CreateCursor
    \/ Callproc
    \/ CloseAndReturn
    \/ StoreExcept
    \/ Request
    \/ Synthesize
    \/ ReadQueryField
    \/ Execute
    \/ Normalize
    \/ IndexExcept
    \/ Render

Spec == Init /\ [][Next]_vars

(***************************************************************************)
(* convert_to_dataframe on its own, applied to every payload up to         *)
(* MaxPayloadLen.                                                          *)
(***************************************************************************)
InitNorm ==
    /\ pc = "convert"
    /\ ontology_result = None
    /\ StoreLocalsInit
    /\ method = "none"
    /\ user_query = None
    /\ content = NoContent
    /\ sparql_data = Unset
    /\ sparql_query = None
    /\ sparql_result \in TextsUpTo(Chars, MaxPayloadLen)
    /\ results_df = NoDf
    /\ results = PyNone
    /\ columns = PyNone
    /\ message = None
    /\ index_exc = NoExc
    /\ outcome = "none"
    /\ catches = 0
    /\ trace = <<>>

Convert ==
    /\ pc = "convert"
    /\ results_df' = convert_to_dataframe(sparql_result)
    /\ pc' = "converted"
    /\ UNCHANGED <<ontology_result, storeVars, method, user_query, content,
                   sparql_data, sparql_query, sparql_result, results, columns, message,
                   index_exc, outcome, catches, trace>>

NextNorm == Convert

SpecNorm == InitNorm /\ [][NextNorm]_vars

(***************************************************************************)
(* Properties.                                                             *)
(***************************************************************************)
\* The request has run to the point where its response is rendered.
AtResponse == pc = "render"

Raises == {"synthesize:raise", "subscript:raise", "execute:raise",
           "normalize:raise"}
StageCalls == {"synthesize:call", "execute:call", "normalize:call"}
InTrace(ev) == \E i \in DOMAIN trace : trace[i] = ev
Count(ev) == Cardinality({i \in DOMAIN trace : trace[i] = ev})

\* How the store call of the request ended.
StoreCallDone == store_ret.kind # "none"
StoreFailed == StoreCallDone /\ store_exc # NoExc
StoreSucceeded == store_ret.kind = "value" /\ store_exc = NoExc

Normalized == InTrace("normalize:return")

\* C1: a POST whose synthesis succeeded and whose store call returned an
\* error string ends FAILED with that error string as its message.
StoreErrorSurfaced ==
    (AtResponse /\ method = "POST" /\ InTrace("subscript:return")
        /\ store_ret.kind = "value" /\ store_exc # NoExc)
    => (outcome = "FAILED" /\ message = store_ret.val /\ ~Normalized)

\* C2: a request whose question is in an unsupported language, answered by
\* the model with the refusal sentence, ends with that sentence as its
\* message, and the store was not called.
RefusalSurfaced ==
    (AtResponse /\ method = "POST" /\ Unsupported(user_query)
        /\ content \in RefusalCompletions)
    => (message = RefusalSentence /\ ~InTrace("execute:call"))

\* C3: a call of call_sparql_execute in which the remote side failed returns
\* a text containing the word Error; it does not raise.
StoreFailureReturned ==
    StoreFailed
    => (store_ret.kind = "value"
        /\ store_ret.val[1] = "Error executing SPARQL query: ")

\* C4: when call_sparql_execute has ended, no connection and no cursor it
\* opened is still open.
HandlesReleased ==
    StoreCallDone => (conn # "open" /\ cursor # "open")

\* C5: a request whose store call succeeded and whose normalization gave no
\* rows ends DONE with "No records found for query: " and the question as
\* its message (a missing question reads None), and returns the columns and
\* the empty row list.
EmptyResultNotice ==
    (AtResponse /\ method = "POST" /\ StoreSucceeded /\ Normalized
        /\ Len(results_df.rows) = 0)
    => /\ outcome = "DONE"
       /\ message = <<"No records found for query: ">>
                      \o (IF user_query = None THEN <<"None">> ELSE user_query)
       /\ results.py = "list" /\ Len(results.v) = 0
       /\ columns = PyList(results_df.columns)

EmptyResultReached ==
    /\ AtResponse /\ method = "POST" /\ StoreSucceeded /\ Normalized
    /\ Len(results_df.rows) = 0
    /\ Len(columns.v) = 2
    /\ message = <<"No records found for query: ">> \o SupportedQuestion

\* C6: no exception of the try block leaves index: each is caught once and
\* the response's message is "Error: " followed by the exception's text.
TopLevelCatch ==
    /\ pc # "unhandled"
    /\ catches <= 1
    /\ (AtResponse /\ \E ev \in Raises : InTrace(ev))
       => /\ catches = 1
          /\ index_exc # NoExc
          /\ message = <<"Error: ">> \o index_exc.text

ExceptionCaught ==
    /\ AtResponse /\ InTrace("execute:raise")
    /\ index_exc.type = "TypeError"
    /\ catches = 1

\* C7: call_sparql_execute is not called by a request with a missing or
\* empty query string.
QueryPresent ==
    (caller = "index" /\ InTrace("execute:call"))
    => (query # None /\ query # <<>>)

\* A request that ended in a non-empty success: a query was synthesized, the
\* store call succeeded and normalization gave at least one row.
NonEmptySuccess ==
    /\ InTrace("subscript:return")
    /\ StoreSucceeded
    /\ Normalized
    /\ Len(results_df.rows) >= 1

ResponseOfSuccess ==
    /\ results = PyList(convert_to_dataframe(sparql_result).rows)
    /\ columns = PyList(convert_to_dataframe(sparql_result).columns)
    /\ sparql_query = sparql_data.v.sparql_query
    /\ message = None

\* C8 as stated: a non-empty success returns the normalized columns and
\* rows, the query and no message; every other request has a message.
MessageNullIffSuccess ==
    AtResponse
    => /\ NonEmptySuccess => ResponseOfSuccess
       /\ ~NonEmptySuccess => message # None

\* C8 amended: a non-empty success returns the normalized columns and rows,
\* the query and no message; every other POST request has a message.
MessageNullIffSuccessOfPost ==
    AtResponse
    => /\ NonEmptySuccess => ResponseOfSuccess
       /\ (method = "POST" /\ ~NonEmptySuccess) => message # None

NonEmptySuccessReached ==
    /\ AtResponse /\ NonEmptySuccess
    /\ Len(results.v) = 1
    /\ message = None

\* Lines of a payload: each line ends at a line feed, the last one may lack it.
PayloadLines(text) ==
    LET pieces == SplitOn(text, LF)
    IN  IF pieces[Len(pieces)] = <<>> THEN SubSeq(pieces, 1, Len(pieces) - 1)
        ELSE pieces

\* A header line of named columns, then data lines of as many cells each.
WellFormed(text) ==
    LET ls == PayloadLines(text)
    IN  /\ Len(ls) >= 1
        /\ \A c \in DOMAIN SplitOn(ls[1], COMMA) : SplitOn(ls[1], COMMA)[c] # <<>>
        /\ \A i \in 2..Len(ls) :
              Len(SplitOn(ls[i], COMMA)) = Len(SplitOn(ls[1], COMMA))

\* C9: of a well-formed payload with C columns and N data lines,
\* convert_to_dataframe returns N rows and C columns, each row of C cells,
\* no cell the NaN marker.
RowsAndColumnsKept ==
    (pc = "converted" /\ WellFormed(sparql_result))
    => LET ls == PayloadLines(sparql_result)
           C == Len(SplitOn(ls[1], COMMA))
           N == Len(ls) - 1
       IN  /\ results_df.ok
           /\ Len(results_df.rows) = N
           /\ Len(results_df.columns) = C
           /\ \A i \in DOMAIN results_df.rows :
                 /\ Len(results_df.rows[i]) = C
                 /\ \A c \in DOMAIN results_df.rows[i] :
                       results_df.rows[i][c] # NaN

\* C10: in a request each stage is called at most once, the store only after
\* synthesis has returned, normalization only after the store call has
\* returned, no stage after one has raised; a GET calls no stage.
StagesOnceInOrder ==
    /\ \A ev \in StageCalls : Count(ev) <= 1
    /\ \A i \in DOMAIN trace :
          /\ trace[i] = "execute:call"
             => \E j \in 1..(i - 1) : trace[j] = "synthesize:return"
          /\ trace[i] = "normalize:call"
             => \E j \in 1..(i - 1) : trace[j] = "execute:return"
          /\ trace[i] \in Raises
             => \A j \in (i + 1)..Len(trace) : trace[j] \notin StageCalls
    /\ method = "GET" => (trace = <<>> /\ caller = "none")

AllStagesRun ==
    /\ AtResponse /\ method = "POST"
    /\ \A ev \in StageCalls : Count(ev) = 1
    /\ InTrace("normalize:return")

====
